---- MODULE Spec2Model ----
(***************************************************************************)
(* A model of the toru task tracker: the dependency graph (graph.rs), the  *)
(* name index (index.rs), the vault state (state.rs), the task record      *)
(* store (tasks.rs), the raw edit (edit.rs) and the command dispatch       *)
(* (main.rs).  One command run is one action: it loads the vault state,    *)
(* performs the operation on the in-memory state and on the task files,    *)
(* and saves the state when the operation succeeded.                       *)
(***************************************************************************)
EXTENDS Naturals, Integers, Sequences, FiniteSets, TLC

VARIABLES
    files,      \* the task store: id -> content of tasks/<id>.toml
    stateFile,  \* state.toml: [present, ok, next_id, index, deps]
    last,       \* the outcome of the last command run
    issued,     \* history: the ids given to the tasks created so far
    graph,      \* a Graph value, for the checks of the graph operations
    ret,        \* what the last graph operation returned
    nameIndex,  \* an Index value, for the checks of the index operations
    answer,     \* what the last index operation returned
    duration,   \* the last Duration operation: its operands and its result
    config,     \* Config.vaults: the registered vaults, a list of (name, path)
    dirs,       \* what is at each path of the file system
    vret        \* what the last vault command returned

vars ==
    <<files, stateFile, last, issued, graph, ret, nameIndex, answer, duration,
      config, dirs, vret>>

vaultVars == <<files, stateFile, last, issued>>

graphVars == <<graph, ret>>

indexVars == <<nameIndex, answer>>

durationVars == <<duration>>

configVars == <<config, dirs, vret>>

\* ---------------------------------------------------------------- bounds

\* Task ids range over 0 .. MaxId - 1; create is not run once next_id = MaxId.
MaxId == 2

\* The longest dependency list given to create.
MaxDeps == 2

\* Node ids of the graphs the graph operations are checked on: 0 .. MaxNode - 1.
MaxNode == 3

\* The times that the clock shows when complete runs: 1 .. MaxStamp.
MaxStamp == 2

Ids == 0 .. (MaxId - 1)

Stamps == 1 .. MaxStamp

Nodes == 0 .. (MaxNode - 1)

\* ------------------------------------------------------------ small helpers

MinOf(S) == CHOOSE x \in S : \A y \in S : x <= y

MaxOf(S) == CHOOSE x \in S : \A y \in S : x >= y

RECURSIVE Ascending(_)
\* The elements of a BTreeSet in iteration order.
Ascending(S) ==
    IF S = {} THEN <<>>
    ELSE LET m == MinOf(S) IN <<m>> \o Ascending(S \ {m})

Range(s) == { s[i] : i \in 1 .. Len(s) }

\* All orders in which the elements of a HashSet can be iterated.
Orders(S) ==
    { s \in [1 .. Cardinality(S) -> S] : Range(s) = S }

\* ------------------------------------------------------------------ graph.rs

\* Graph { edges : BTreeMap<Id, BTreeSet<Id>> }
EmptyGraph == [n \in {} |-> {}]

contains_node(G, node) == node \in DOMAIN G

\* BTreeMap::insert replaces the value of a key that is already present.
insert_node(G, node) ==
    [ g   |-> [n \in (DOMAIN G) \cup {node} |-> IF n = node THEN {} ELSE G[n]],
      res |-> IF node \in DOMAIN G THEN "false" ELSE "true" ]

insert_edge_no_self_check(G, first, second) ==
    IF ~contains_node(G, first) \/ ~contains_node(G, second)
    THEN [g |-> G, res |-> "internal"]
    ELSE [ g   |-> [G EXCEPT ![first] = @ \cup {second}],
           res |-> IF second \in G[first] THEN "false" ELSE "true" ]

insert_edge(G, first, second) ==
    IF ~contains_node(G, first) \/ ~contains_node(G, second)
    THEN [g |-> G, res |-> "internal"]
    ELSE IF first = second
    THEN [g |-> G, res |-> "generic"]
    ELSE [ g   |-> [G EXCEPT ![first] = @ \cup {second}],
           res |-> IF second \in G[first] THEN "false" ELSE "true" ]

\* remove_node leaving the edges to the removed node in place.
remove_node_keep_edges(G, node) ==
    IF node \in DOMAIN G
    THEN [ g          |-> [n \in (DOMAIN G) \ {node} |-> G[n]],
           res        |-> "true",
           dependents |-> { n \in (DOMAIN G) \ {node} : node \in G[n] } ]
    ELSE [ g |-> G, res |-> "false", dependents |-> {} ]

\* remove_node reporting success without looking for the node.
remove_node_always_true(G, node) ==
    [ g          |-> [n \in (DOMAIN G) \ {node} |-> G[n] \ {node}],
      res        |-> "true",
      dependents |-> { n \in (DOMAIN G) \ {node} : node \in G[n] } ]

remove_node(G, node) ==
    IF node \in DOMAIN G
    THEN [ g          |-> [n \in (DOMAIN G) \ {node} |-> G[n] \ {node}],
           res        |-> "true",
           dependents |-> { n \in (DOMAIN G) \ {node} : node \in G[n] } ]
    ELSE [ g |-> G, res |-> "false", dependents |-> {} ]

remove_edge(G, first, second) ==
    IF first \in DOMAIN G
    THEN [ g   |-> [G EXCEPT ![first] = @ \ {second}],
           res |-> IF second \in G[first] THEN "true" ELSE "false" ]
    ELSE [ g |-> G, res |-> "false" ]

\* What get_nested_deps gives: the set, or a panic of edges.get(curr).unwrap()
\* on an id that is not a node, or the recursion not ending (a stack overflow).
NestedResult(output, panic, overflow) ==
    [output |-> output, panic |-> panic, overflow |-> overflow]

RECURSIVE helper(_, _, _)
\* The helper of get_nested_deps, depth calls deep: each dependency of curr is
\* put into the output and visited.  A call deeper than there are nodes is on a
\* cycle, where the recursion does not end.
helper(G, curr, depth) ==
    IF curr \notin DOMAIN G THEN NestedResult({}, TRUE, FALSE)
    ELSE IF depth > Cardinality(DOMAIN G) THEN NestedResult({}, FALSE, TRUE)
    ELSE LET visits == { helper(G, dep, depth + 1) : dep \in G[curr] } IN
         NestedResult(G[curr] \cup UNION { v.output : v \in visits },
                      \E v \in visits : v.panic,
                      \E v \in visits : v.overflow)

\* get_nested_deps returning the direct dependencies only.
get_nested_deps_direct(G, id) ==
    IF id \notin DOMAIN G THEN NestedResult({}, TRUE, FALSE)
    ELSE NestedResult(G[id], FALSE, FALSE)

\* Graph::get_nested_deps
get_nested_deps(G, id) == helper(G, id, 0)

\* The result of find_cycle_local: the returned Option<Vec<Id>>, the two sets
\* it mutates through its references, and whether edges.get(..).unwrap()
\* panicked on an edge target that is not a node.
LocalResult(found, path, unvisited, cpv, panic) ==
    [found |-> found, path |-> path, unvisited |-> unvisited,
     cpv |-> cpv, panic |-> panic]

RECURSIVE find_cycle_local(_, _, _, _)
RECURSIVE find_cycle_edges(_, _, _, _, _, _)

\* The loop of find_cycle_local without the removal of the searched node from
\* current_path_visited.
find_cycle_edges_keep(G, start, outgoing, i, unvisited, cpv) ==
    IF i > Len(outgoing)
    THEN LocalResult(FALSE, <<>>, unvisited, cpv, FALSE)
    ELSE LET r == find_cycle_local(G, outgoing[i], unvisited, cpv) IN
         IF r.panic THEN r
         ELSE IF r.found
         THEN LocalResult(TRUE, Append(r.path, start), r.unvisited, r.cpv, FALSE)
         ELSE find_cycle_edges(G, start, outgoing, i + 1, r.unvisited, r.cpv)

\* The for loop over the outgoing edges of start, from the i-th on.
find_cycle_edges(G, start, outgoing, i, unvisited, cpv) ==
    IF i > Len(outgoing)
    THEN LocalResult(FALSE, <<>>, unvisited, cpv, FALSE)
    ELSE LET r == find_cycle_local(G, outgoing[i], unvisited, cpv) IN
         IF r.panic THEN r
         ELSE IF r.found
         THEN LocalResult(TRUE, Append(r.path, start), r.unvisited, r.cpv, FALSE)
         ELSE find_cycle_edges(G, start, outgoing, i + 1, r.unvisited,
                               r.cpv \ {outgoing[i]})

find_cycle_local(G, start, unvisited, cpv) ==
    IF start \in cpv
    THEN LocalResult(TRUE, <<start>>, unvisited, cpv, FALSE)
    ELSE IF start \notin DOMAIN G
    THEN LocalResult(FALSE, <<>>, unvisited \ {start}, cpv \cup {start}, TRUE)
    ELSE find_cycle_edges(G, start, Ascending(G[start]), 1,
                          unvisited \ {start}, cpv \cup {start})

\* Option<Vec<Id>>, and the panic of find_cycle_local.
None == [some |-> FALSE, path |-> <<>>, panic |-> FALSE]

Some(path) == [some |-> TRUE, path |-> path, panic |-> FALSE]

Panic == [some |-> FALSE, path |-> <<>>, panic |-> TRUE]

RECURSIVE find_cycle_from(_, _)
\* The while loop of find_cycle.
find_cycle_from(G, unvisited) ==
    IF unvisited = {} THEN None
    ELSE LET start == MinOf(unvisited)
             r == find_cycle_local(G, start, unvisited, {})
         IN  IF r.panic THEN Panic
             ELSE IF r.found THEN Some(r.path)
             ELSE find_cycle_from(G, r.unvisited)

\* find_cycle searching from the smallest id only.
find_cycle_first_root(G) ==
    IF DOMAIN G = {} THEN None
    ELSE LET r == find_cycle_local(G, MinOf(DOMAIN G), DOMAIN G, {}) IN
         IF r.panic THEN Panic
         ELSE IF r.found THEN Some(r.path) ELSE None

\* find_cycle that never reports a cycle.
find_cycle_never(G) == None

find_cycle(G) == find_cycle_from(G, DOMAIN G)

\* Graph::create: one node per task, its edges the record's dependencies.
GraphCreate(tasks) == [id \in DOMAIN tasks |-> tasks[id].dependencies]

\* ------------------------------------------------- graph-theoretic notions

\* Every edge target is a node.
WellFormed(G) == \A n \in DOMAIN G : G[n] \subseteq DOMAIN G

RECURSIVE ReachableIn(_, _, _)
\* The nodes reached from the set S by one or more edges, in at most k rounds.
ReachableIn(G, S, k) ==
    LET next == UNION { G[n] : n \in S \cap DOMAIN G } IN
    IF k = 0 \/ next \subseteq S THEN S
    ELSE ReachableIn(G, S \cup next, k - 1)

\* The nodes reached from n by one or more edges.
ReachableFrom(G, n) ==
    IF n \notin DOMAIN G THEN {}
    ELSE ReachableIn(G, G[n], Cardinality(DOMAIN G) + 1)

HasCycle(G) == \E n \in DOMAIN G : n \in ReachableFrom(G, n)

\* Every consecutive pair of path is an edge of G.
IsEdgePath(G, path) ==
    \A i \in 1 .. (Len(path) - 1) :
        path[i] \in DOMAIN G /\ path[i + 1] \in G[path[i]]

\* All well-formed graphs over subsets of Nodes (self-loops included).
AllGraphs ==
    UNION { [ns -> SUBSET ns] : ns \in SUBSET Nodes }

\* ------------------------------------------------------- names and tokens

\* Names and tokens are strings, modelled as sequences of characters.
DigitChars == <<"0", "1", "2", "3", "4", "5", "6", "7", "8", "9">>

IsDigit(c) == \E d \in 1 .. Len(DigitChars) : DigitChars[d] = c

DigitValue(c) == (CHOOSE d \in 1 .. Len(DigitChars) : DigitChars[d] = c) - 1

\* A check of the name that rejects nothing.
IsNumericNameNever(name) == FALSE

\* name.chars().all(|c| c.is_numeric()): true of the empty name.
IsNumericName(name) == \A i \in 1 .. Len(name) : IsDigit(name[i])

RECURSIVE DecimalValue(_)
DecimalValue(digits) ==
    IF digits = <<>> THEN 0
    ELSE 10 * DecimalValue(SubSeq(digits, 1, Len(digits) - 1))
         + DigitValue(digits[Len(digits)])

\* str::parse::<u64>(): an optional leading "+", then one or more digits.
ParseId(token) ==
    LET digits == IF token # <<>> /\ token[1] = "+" THEN Tail(token) ELSE token IN
    IF digits # <<>> /\ \A i \in 1 .. Len(digits) : IsDigit(digits[i])
    THEN [ok |-> TRUE, id |-> DecimalValue(digits)]
    ELSE [ok |-> FALSE, id |-> 0]

RECURSIVE FormatId(_)
\* format!("{}", id): the decimal digits of id, no leading zeros.
FormatId(id) ==
    IF id < 10 THEN <<DigitChars[id + 1]>>
    ELSE Append(FormatId(id \div 10), DigitChars[(id % 10) + 1])

\* The names given to create and typed into a raw edit.
NameChoices == { <<"a">>, <<"1">>, <<"+", "1">> }

\* The id-or-name tokens given to delete and edit.
Tokens == NameChoices \cup { FormatId(id) : id \in Ids }

\* ------------------------------------------------------------------ index.rs

\* Index { map : HashMap<String, Vec<Id>> }
EmptyIndex == [n \in {} |-> <<>>]

\* Index::insert, without effect.
IndexInsertNothing(ix, name, id) == ix

\* Index::insert
IndexInsert(ix, name, id) ==
    IF name \in DOMAIN ix
    THEN [ix EXCEPT ![name] = Append(@, id)]
    ELSE [n \in (DOMAIN ix) \cup {name} |-> IF n = name THEN <<id>> ELSE ix[n]]

\* Vec::swap_remove: the last element takes the place of the removed one.
SwapRemove(ids, i) ==
    LET moved == [ids EXCEPT ![i] = ids[Len(ids)]] IN
    SubSeq(moved, 1, Len(ids) - 1)

\* Index::remove: the bucket is taken out of the map and put back only when
\* the id was found in it and other ids remain.
IndexRemove(ix, name, id) ==
    IF name \notin DOMAIN ix THEN ix
    ELSE LET ids == ix[name]
             without == [n \in (DOMAIN ix) \ {name} |-> ix[n]]
         IN  IF \E i \in 1 .. Len(ids) : ids[i] = id
             THEN LET pos == MinOf({ i \in 1 .. Len(ids) : ids[i] = id })
                      rest == SwapRemove(ids, pos)
                  IN  IF rest # <<>>
                      THEN [n \in DOMAIN ix |-> IF n = name THEN rest ELSE ix[n]]
                      ELSE without
             ELSE without

\* Index::lookup looking for a bucket named by the token before it parses it.
IndexLookupNameFirst(ix, token) ==
    LET parsed == ParseId(token) IN
    IF token \in DOMAIN ix
    THEN IF Len(ix[token]) = 1
         THEN [ok |-> TRUE, err |-> "none", id |-> ix[token][1], ids |-> <<>>]
         ELSE [ok |-> FALSE, err |-> "ambiguous", id |-> 0, ids |-> ix[token]]
    ELSE IF parsed.ok
    THEN [ok |-> TRUE, err |-> "none", id |-> parsed.id, ids |-> <<>>]
    ELSE [ok |-> FALSE, err |-> "name_not_found", id |-> 0, ids |-> <<>>]

\* Index::lookup returning the first id of a bucket, however many it holds.
IndexLookupFirst(ix, token) ==
    LET parsed == ParseId(token) IN
    IF parsed.ok THEN [ok |-> TRUE, err |-> "none", id |-> parsed.id, ids |-> <<>>]
    ELSE IF token \in DOMAIN ix
    THEN [ok |-> TRUE, err |-> "none", id |-> ix[token][1], ids |-> <<>>]
    ELSE [ok |-> FALSE, err |-> "name_not_found", id |-> 0, ids |-> <<>>]

\* Index::lookup
IndexLookup(ix, token) ==
    LET parsed == ParseId(token) IN
    IF parsed.ok THEN [ok |-> TRUE, err |-> "none", id |-> parsed.id, ids |-> <<>>]
    ELSE IF token \in DOMAIN ix
    THEN IF Len(ix[token]) = 1
         THEN [ok |-> TRUE, err |-> "none", id |-> ix[token][1], ids |-> <<>>]
         ELSE [ok |-> FALSE, err |-> "ambiguous", id |-> 0, ids |-> ix[token]]
    ELSE [ok |-> FALSE, err |-> "name_not_found", id |-> 0, ids |-> <<>>]

RECURSIVE IndexCreate(_, _)
\* The index built from the loaded tasks, in the order load_all returned them.
IndexCreate(tasks, order) ==
    IF order = <<>> THEN EmptyIndex
    ELSE LET id == order[Len(order)] IN
         IndexInsert(IndexCreate(tasks, SubSeq(order, 1, Len(order) - 1)),
                     tasks[id].name, id)

\* ------------------------------------------------------------------ tasks.rs

\* The content of a task file: a serialized InternalTask (its id is the id in
\* the file name; completed is 0 for None and the time for Some(time)), or something that does not deserialize, such as the empty
\* file that File::options().create(true).open() makes.
TaskData(name, dependencies) ==
    [ok |-> TRUE, name |-> name, dependencies |-> dependencies,
     completed |-> 0]

Unreadable ==
    [ok |-> FALSE, name |-> <<>>, dependencies |-> {}, completed |-> 0]

NoFiles == [id \in {} |-> Unreadable]

WriteFile(fs, id, content) ==
    [i \in (DOMAIN fs) \cup {id} |-> IF i = id THEN content ELSE fs[i]]

RemoveFile(fs, id) == [i \in (DOMAIN fs) \ {id} |-> fs[i]]

\* Task::save: the data is serialized and written over the file.
TaskSave(fs, id, data) ==
    [ok |-> TRUE, err |-> "none", fs |-> WriteFile(fs, id, data)]

\* Task::load: check_exists, then load_direct.
TaskLoad(fs, id) ==
    IF id \notin DOMAIN fs THEN [ok |-> FALSE, err |-> "no_task", data |-> Unreadable]
    ELSE IF ~fs[id].ok THEN [ok |-> FALSE, err |-> "toml", data |-> Unreadable]
    ELSE [ok |-> TRUE, err |-> "none", data |-> fs[id]]

\* Task::load_all succeeds: every file of the task store deserializes.
LoadAllOk(fs) == \A id \in DOMAIN fs : fs[id].ok

\* The in-memory InternalState.
StateData(next_id, index, deps) ==
    [next_id |-> next_id, index |-> index, deps |-> deps]

RECURSIVE InsertDependencies(_, _, _, _)
\* The loop of Task::new and of edit_raw over the requested dependencies.
InsertDependencies(G, id, dependencies, i) ==
    IF i > Len(dependencies) THEN [ok |-> TRUE, err |-> "none", arg |-> 0, g |-> G]
    ELSE IF contains_node(G, dependencies[i])
    THEN LET r == insert_edge(G, id, dependencies[i]) IN
         IF r.res = "internal"
         THEN [ok |-> FALSE, err |-> "internal", arg |-> dependencies[i], g |-> r.g]
         ELSE IF r.res = "generic"
         THEN [ok |-> FALSE, err |-> "self_dependency", arg |-> id, g |-> r.g]
         ELSE InsertDependencies(r.g, id, dependencies, i + 1)
    ELSE [ok |-> FALSE, err |-> "dependency_not_found", arg |-> dependencies[i],
          g |-> G]

\* Task::new leaving next_id as it found it.
TaskNewSameId(st, fs, name, dependencies) ==
    IF IsNumericName(name)
    THEN [ok |-> FALSE, err |-> "numeric_name", arg |-> 0, id |-> 0,
          st |-> st, fs |-> fs]
    ELSE LET id == st.next_id
             opened == IF id \in DOMAIN fs THEN fs ELSE WriteFile(fs, id, Unreadable)
             r == InsertDependencies(insert_node(st.deps, id).g, id, dependencies, 1)
         IN  IF ~r.ok
             THEN [ok |-> FALSE, err |-> r.err, arg |-> r.arg, id |-> id,
                   st |-> StateData(id, st.index, r.g), fs |-> opened]
             ELSE [ok |-> TRUE, err |-> "none", arg |-> 0, id |-> id,
                   st |-> StateData(id, IndexInsert(st.index, name, id), r.g),
                   fs |-> WriteFile(opened, id, TaskData(name, Range(dependencies)))]

\* Task::new
TaskNew(st, fs, name, dependencies) ==
    IF IsNumericName(name)
    THEN [ok |-> FALSE, err |-> "numeric_name", arg |-> 0, id |-> 0,
          st |-> st, fs |-> fs]
    ELSE LET id == st.next_id
             opened == IF id \in DOMAIN fs THEN fs ELSE WriteFile(fs, id, Unreadable)
             r == InsertDependencies(insert_node(st.deps, id).g, id, dependencies, 1)
         IN  IF ~r.ok
             THEN [ok |-> FALSE, err |-> r.err, arg |-> r.arg, id |-> id,
                   st |-> StateData(id + 1, st.index, r.g), fs |-> opened]
             ELSE [ok |-> TRUE, err |-> "none", arg |-> 0, id |-> id,
                   st |-> StateData(id + 1, IndexInsert(st.index, name, id), r.g),
                   fs |-> WriteFile(opened, id, TaskData(name, Range(dependencies)))]

\* ------------------------------------------------------------------ state.rs

\* The ids of the .toml files in the vault's notes directory, which vault new
\* creates empty and into which no operation writes.
NotesIds == {}

Persisted(st) ==
    [present |-> TRUE, ok |-> TRUE, next_id |-> st.next_id, index |-> st.index,
     deps |-> st.deps]

\* No state.toml.
Missing ==
    [present |-> FALSE, ok |-> FALSE, next_id |-> 0, index |-> EmptyIndex,
     deps |-> EmptyGraph]

\* A state.toml whose text is not a serialized InternalState.
Malformed ==
    [present |-> TRUE, ok |-> FALSE, next_id |-> 0, index |-> EmptyIndex,
     deps |-> EmptyGraph]

\* State::load taking a state.toml that does not deserialize for a missing one.
StateLoadHealing(sf, fs, order) ==
    IF sf.present /\ sf.ok
    THEN [ok |-> TRUE, err |-> "none", boot |-> FALSE,
          st |-> StateData(sf.next_id, sf.index, sf.deps)]
    ELSE IF \E id \in DOMAIN fs : ~fs[id].ok
    THEN [ok |-> FALSE, err |-> "toml", boot |-> FALSE,
          st |-> StateData(0, EmptyIndex, EmptyGraph)]
    ELSE [ok |-> TRUE, err |-> "none", boot |-> TRUE,
          st |-> StateData(IF NotesIds = {} THEN 0 ELSE MaxOf(NotesIds) + 1,
                           IndexCreate(fs, order), EmptyGraph)]

\* State::load.  With state.toml present the state is deserialized from it,
\* which fails when its text is malformed;
\* otherwise next_id is one more than the largest id found in notes, the index
\* is built from the tasks that load_all returns (in the order order), no
\* dependency graph is built, and the state is written to state.toml.
StateLoad(sf, fs, order) ==
    IF sf.present
    THEN IF sf.ok
         THEN [ok |-> TRUE, err |-> "none", boot |-> FALSE,
               st |-> StateData(sf.next_id, sf.index, sf.deps)]
         ELSE [ok |-> FALSE, err |-> "toml", boot |-> FALSE,
               st |-> StateData(0, EmptyIndex, EmptyGraph)]
    ELSE IF \E id \in DOMAIN fs : ~fs[id].ok
    THEN [ok |-> FALSE, err |-> "toml", boot |-> FALSE,
          st |-> StateData(0, EmptyIndex, EmptyGraph)]
    ELSE [ok |-> TRUE, err |-> "none", boot |-> TRUE,
          st |-> StateData(IF NotesIds = {} THEN 0 ELSE MaxOf(NotesIds) + 1,
                           IndexCreate(fs, order), EmptyGraph)]

\* state.toml once State::load has returned.
AfterLoad(sf, ld) == IF ld.ok /\ ld.boot THEN Persisted(ld.st) ELSE sf

\* The orders in which load_all can return the tasks; it is called only when
\* state.toml is missing.
LoadOrders == IF stateFile.present THEN {<<>>} ELSE Orders(DOMAIN files)

\* ------------------------------------------------ the vault before any command

\* ------------------------------------------------------------------- edit.rs

RECURSIVE RemoveEdges(_, _, _)
\* The loop of edit_raw that removes the edges to the stored dependencies.
RemoveEdges(G, id, dependencies) ==
    IF dependencies = {} THEN G
    ELSE LET d == MinOf(dependencies) IN
         RemoveEdges(remove_edge(G, id, d).g, id, dependencies \ {d})

\* What the editor leaves in temp.toml: it exits with a failure status
\* ("exit_fail"), leaves text that does not deserialize ("garbage"), or leaves
\* a task ("task"), whose completed line is the stored one (keep) or not.
EditAs(kind, id, name, dependencies) ==
    [kind |-> kind, id |-> id, name |-> name, dependencies |-> dependencies,
     keep |-> TRUE, completed |-> 0]

\* The edits of task id that change nothing but its completed line: the line
\* is removed (0) or given a time.
CompletedEdits(fs, id) ==
    IF id \in DOMAIN fs /\ fs[id].ok
    THEN { [EditAs("task", id, fs[id].name, fs[id].dependencies) EXCEPT
               !.keep = FALSE, !.completed = c] : c \in 0 .. MaxStamp }
    ELSE { EditAs("exit_fail", id, <<>>, {}) }

\* The edits of task id that are tried: any accepted name with any dependency
\* set under the same id, one edit per rejected name and one per other id
\* (what else such an edit holds is not looked at).
Edits(id) ==
    { EditAs("exit_fail", id, <<>>, {}), EditAs("garbage", id, <<>>, {}) }
    \cup { EditAs("task", id, n, d) :
             n \in { m \in NameChoices : ~IsNumericName(m) }, d \in SUBSET Ids }
    \cup { EditAs("task", id, n, {}) : n \in { m \in NameChoices : IsNumericName(m) } }
    \cup { EditAs("task", i, <<"a">>, {}) : i \in Ids \ {id} }

EditResult(err, st, fs) ==
    [ok |-> err = "none", err |-> err, st |-> st, fs |-> fs]

\* edit_raw.  order is the order in which the edited dependencies, a HashSet,
\* are iterated.
EditRaw(st, fs, id, edit, order) ==
    LET task == TaskLoad(fs, id) IN
    IF ~task.ok THEN EditResult(task.err, st, fs)
    ELSE IF edit.kind = "exit_fail" THEN EditResult("editor", st, fs)
    ELSE IF edit.kind = "garbage" THEN EditResult("toml", st, fs)
    ELSE IF edit.id # id THEN EditResult("id_changed", st, fs)
    ELSE IF IsNumericName(edit.name) THEN EditResult("numeric_name", st, fs)
    ELSE
    LET changed == edit.dependencies # task.data.dependencies
        removed == RemoveEdges(st.deps, id, task.data.dependencies)
        r == IF changed
             THEN InsertDependencies(removed, id, order, 1)
             ELSE [ok |-> TRUE, err |-> "none", arg |-> 0, g |-> st.deps]
        cycle == IF changed /\ r.ok THEN find_cycle(r.g) ELSE None
        index == IF edit.name # task.data.name
                 THEN IndexInsert(IndexRemove(st.index, task.data.name, id),
                                  edit.name, id)
                 ELSE st.index
    IN  IF ~r.ok
        THEN EditResult(r.err, StateData(st.next_id, st.index, r.g), fs)
        ELSE IF cycle.panic
        THEN EditResult("panic", StateData(st.next_id, st.index, r.g), fs)
        ELSE IF cycle.some
        THEN EditResult("cycle", StateData(st.next_id, st.index, r.g), fs)
        ELSE EditResult("none", StateData(st.next_id, index, r.g),
                        TaskSave(fs, id,
                                 [task.data EXCEPT
                                     !.name = edit.name,
                                     !.dependencies = edit.dependencies,
                                     !.completed = IF edit.keep THEN @
                                                   ELSE edit.completed]).fs)

\* ------------------------------------------------------------------- main.rs

\* The commands of toru that load the vault state.
Commands == {"new", "delete", "edit", "list", "complete", "track"}

\* How often a run of program calls state.save(): the call follows the match
\* on the command, which an error leaves through ?.
Saves(op, err) == IF op \in Commands /\ err = "none" THEN 1 ELSE 0

\* program never reaching state.save().
CommitNever(ok, st, sf) == sf

\* program saving the state whatever the command returned.
CommitAlways(ok, st, sf) == Persisted(st)

\* program: an error returns before state.save() is reached.
Commit(ok, st, sf) == IF ok THEN Persisted(st) ELSE sf

\* main: the exit status of the process.  An Err that program returns is
\* printed and main returns, which is status 0; a panic ends the process with
\* status 101.
ExitStatus(err) == IF err = "panic" THEN 101 ELSE 0

\* What a command run is seen to do: its result and, when it succeeded, the id
\* of the task it created, deleted or edited.  For create, also the name and
\* the dependencies it was given, the id its error message names, and the
\* edges of the new node in the in-memory graph when Task::new returned.
Outcome(op, err, id, boot) ==
    [op |-> op, err |-> err, id |-> IF err = "none" THEN id ELSE 0, boot |-> boot,
     name |-> <<>>, deps |-> {}, arg |-> 0, wired |-> {},
     exit |-> ExitStatus(err), saves |-> Saves(op, err)]

NewOutcome(r, name, dependencies, boot) ==
    [Outcome("new", r.err, r.id, boot) EXCEPT
        !.name = name,
        !.deps = Range(dependencies),
        !.arg = r.arg,
        !.wired = IF r.id \in DOMAIN r.st.deps THEN r.st.deps[r.id] ELSE {}]

\* The ids given as dependencies: those of the tasks and one that no task has.
DepIds == 0 .. MaxId

\* Dependency lists of at most MaxDeps ids.
DepLists == UNION { [1 .. n -> DepIds] : n \in 0 .. MaxDeps }

\* The arguments of create that are tried: any accepted name with any
\* dependency list, and each rejected name once.
NewArgs ==
    { <<n, d>> : n \in { m \in NameChoices : ~IsNumericName(m) }, d \in DepLists }
    \cup { <<n, <<>> >> : n \in { m \in NameChoices : IsNumericName(m) } }

\* A command fails in State::load: nothing is written.
LoadFails(op, ld) ==
    /\ last' = Outcome(op, ld.err, 0, FALSE)
    /\ UNCHANGED <<files, stateFile, issued>>

\* toru new
CmdNew ==
    \E args \in NewArgs, order \in LoadOrders :
        LET ld == StateLoad(stateFile, files, order) IN
        IF ~ld.ok THEN LoadFails("new", ld) /\ UNCHANGED <<graphVars, indexVars, durationVars, configVars>>
        ELSE LET r == TaskNew(ld.st, files, args[1], args[2]) IN
             /\ ld.st.next_id < MaxId
             /\ files' = r.fs
             /\ stateFile' = Commit(r.ok, r.st, AfterLoad(stateFile, ld))
             /\ last' = NewOutcome(r, args[1], args[2], ld.boot)
             /\ issued' = IF r.ok THEN issued \cup {r.id} ELSE issued
             /\ UNCHANGED <<graphVars, indexVars, durationVars, configVars>>

\* The Delete arm of program, on the loaded state.
Delete(st, fs, token) ==
    LET found == IndexLookup(st.index, token)
        task == TaskLoad(fs, found.id)
    IN  IF ~found.ok THEN [ok |-> FALSE, err |-> found.err, id |-> 0, st |-> st, fs |-> fs]
        ELSE IF ~task.ok
        THEN [ok |-> FALSE, err |-> task.err, id |-> found.id, st |-> st, fs |-> fs]
        ELSE [ok |-> TRUE, err |-> "none", id |-> found.id,
              st |-> StateData(st.next_id,
                               IndexRemove(st.index, task.data.name, found.id),
                               remove_node(st.deps, found.id).g),
              fs |-> RemoveFile(fs, found.id)]

\* toru delete
CmdDelete ==
    \E token \in Tokens, order \in LoadOrders :
        LET ld == StateLoad(stateFile, files, order) IN
        IF ~ld.ok THEN LoadFails("delete", ld) /\ UNCHANGED <<graphVars, indexVars, durationVars, configVars>>
        ELSE LET r == Delete(ld.st, files, token) IN
             /\ files' = r.fs
             /\ stateFile' = Commit(r.ok, r.st, AfterLoad(stateFile, ld))
             /\ last' = Outcome("delete", r.err, r.id, ld.boot)
             /\ UNCHANGED issued
             /\ UNCHANGED <<graphVars, indexVars, durationVars, configVars>>

\* toru edit (the raw edit)
CmdEdit ==
    \E token \in Tokens, order \in LoadOrders :
        LET ld == StateLoad(stateFile, files, order)
            found == IndexLookup(ld.st.index, token)
        IN
        IF ~ld.ok THEN LoadFails("edit", ld) /\ UNCHANGED <<graphVars, indexVars, durationVars, configVars>>
        ELSE IF ~found.ok
        THEN /\ last' = Outcome("edit", found.err, 0, ld.boot)
             /\ stateFile' = AfterLoad(stateFile, ld)
             /\ UNCHANGED <<files, issued>>
             /\ UNCHANGED <<graphVars, indexVars, durationVars, configVars>>
        ELSE \E edit \in Edits(found.id) :
             \E deporder \in Orders(edit.dependencies) :
             LET r == EditRaw(ld.st, files, found.id, edit, deporder) IN
             /\ files' = r.fs
             /\ stateFile' = Commit(r.ok, r.st, AfterLoad(stateFile, ld))
             /\ last' = Outcome("edit", r.err, found.id, ld.boot)
             /\ UNCHANGED issued
             /\ UNCHANGED <<graphVars, indexVars, durationVars, configVars>>

\* toru list: list fails when load_all does; otherwise the state is saved as
\* it was loaded.
CmdList ==
    \E order \in LoadOrders :
        LET ld == StateLoad(stateFile, files, order)
            listed == LoadAllOk(files)
        IN
        IF ~ld.ok THEN LoadFails("list", ld) /\ UNCHANGED <<graphVars, indexVars, durationVars, configVars>>
        ELSE /\ stateFile' = Commit(listed, ld.st, AfterLoad(stateFile, ld))
             /\ last' = Outcome("list", IF listed THEN "none" ELSE "toml", 0, ld.boot)
             /\ UNCHANGED <<files, issued>>
             /\ UNCHANGED <<graphVars, indexVars, durationVars, configVars>>

\* state.toml is absent when the next command runs: the vault was checked out
\* from version control, where .gitignore lists state.toml.
StateFileLost ==
    /\ stateFile.present
    /\ stateFile' = Missing
    /\ last' = Outcome("state_lost", "none", 0, FALSE)
    /\ UNCHANGED <<files, issued>>
    /\ UNCHANGED <<graphVars, indexVars, durationVars, configVars>>

\* The Complete arm of program, on the loaded state; now is the time that
\* chrono::Local::now() returns.
Complete(st, fs, token, now) ==
    LET found == IndexLookup(st.index, token)
        task == TaskLoad(fs, found.id)
        saved == TaskSave(fs, found.id, [task.data EXCEPT !.completed = now])
    IN  IF ~found.ok THEN [ok |-> FALSE, err |-> found.err, id |-> 0, fs |-> fs]
        ELSE IF ~task.ok
        THEN [ok |-> FALSE, err |-> task.err, id |-> found.id, fs |-> fs]
        ELSE [ok |-> saved.ok, err |-> saved.err, id |-> found.id, fs |-> saved.fs]

\* toru complete
CmdComplete ==
    \E token \in Tokens, now \in Stamps, order \in LoadOrders :
        LET ld == StateLoad(stateFile, files, order) IN
        IF ~ld.ok THEN LoadFails("complete", ld) /\ UNCHANGED <<graphVars, indexVars, durationVars, configVars>>
        ELSE LET r == Complete(ld.st, files, token, now) IN
             /\ files' = r.fs
             /\ stateFile' = Commit(r.ok, ld.st, AfterLoad(stateFile, ld))
             /\ last' = Outcome("complete", r.err, r.id, ld.boot)
             /\ UNCHANGED issued
             /\ UNCHANGED <<graphVars, indexVars, durationVars, configVars>>

\* The Track arm of program, on the loaded state: the task is loaded, a time
\* entry is pushed and the task is saved.
Track(st, fs, token) ==
    LET found == IndexLookup(st.index, token)
        task == TaskLoad(fs, found.id)
        saved == TaskSave(fs, found.id, task.data)
    IN  IF ~found.ok THEN [ok |-> FALSE, err |-> found.err, id |-> 0, fs |-> fs]
        ELSE IF ~task.ok
        THEN [ok |-> FALSE, err |-> task.err, id |-> found.id, fs |-> fs]
        ELSE [ok |-> saved.ok, err |-> saved.err, id |-> found.id, fs |-> saved.fs]

\* toru track
CmdTrack ==
    \E token \in Tokens, order \in LoadOrders :
        LET ld == StateLoad(stateFile, files, order) IN
        IF ~ld.ok THEN LoadFails("track", ld) /\ UNCHANGED <<graphVars, indexVars, durationVars, configVars>>
        ELSE LET r == Track(ld.st, files, token) IN
             /\ files' = r.fs
             /\ stateFile' = Commit(r.ok, ld.st, AfterLoad(stateFile, ld))
             /\ last' = Outcome("track", r.err, r.id, ld.boot)
             /\ UNCHANGED issued
             /\ UNCHANGED <<graphVars, indexVars, durationVars, configVars>>

\* toru edit (the raw edit), the editor changing only the completed line.
CmdEditCompleted ==
    \E token \in Tokens, order \in LoadOrders :
        LET ld == StateLoad(stateFile, files, order)
            found == IndexLookup(ld.st.index, token)
        IN
        IF ~ld.ok THEN LoadFails("edit", ld) /\ UNCHANGED <<graphVars, indexVars, durationVars, configVars>>
        ELSE IF ~found.ok
        THEN /\ last' = Outcome("edit", found.err, 0, ld.boot)
             /\ stateFile' = AfterLoad(stateFile, ld)
             /\ UNCHANGED <<files, issued>>
             /\ UNCHANGED <<graphVars, indexVars, durationVars, configVars>>
        ELSE \E edit \in CompletedEdits(files, found.id) :
             \E deporder \in Orders(edit.dependencies) :
             LET r == EditRaw(ld.st, files, found.id, edit, deporder) IN
             /\ files' = r.fs
             /\ stateFile' = Commit(r.ok, r.st, AfterLoad(stateFile, ld))
             /\ last' = Outcome("edit", r.err, found.id, ld.boot)
             /\ UNCHANGED issued
             /\ UNCHANGED <<graphVars, indexVars, durationVars, configVars>>

\* A task file is given another name outside toru: with an editor, or by a
\* git pull into the vault.  state.toml is not touched.
TaskFileEdited ==
    \E id \in DOMAIN files, name \in NameChoices :
        /\ files[id].ok
        /\ files[id].name # name
        /\ files' = [files EXCEPT ![id].name = name]
        /\ last' = Outcome("file_edited", "none", id, FALSE)
        /\ UNCHANGED <<stateFile, issued>>
        /\ UNCHANGED <<graphVars, indexVars, durationVars, configVars>>

\* state.toml is left with text that does not deserialize: a save that was
\* cut short after file.set_len(0), or an edit by hand.
StateFileDamaged ==
    /\ stateFile.present /\ stateFile.ok
    /\ stateFile' = Malformed
    /\ last' = Outcome("state_damaged", "none", 0, FALSE)
    /\ UNCHANGED <<files, issued>>
    /\ UNCHANGED <<graphVars, indexVars, durationVars, configVars>>

NoCommand == Outcome("none", "none", 0, FALSE)

\* tasks/ is empty and state.toml holds the state that vault new bootstrapped.
VaultInit ==
    /\ files = NoFiles
    /\ stateFile = Persisted(StateData(0, EmptyIndex, EmptyGraph))
    /\ last = NoCommand
    /\ issued = {}

\* ------------------------------------------------- config.rs and vault.rs

\* The names and the paths given to the vault commands.
VaultNames == {"home", "work", "misc"}

VaultPaths == {"/a", "/b"}

\* What is at a path: nothing, an empty folder, a folder with other data, a
\* file, or a folder with the notes folder and state.toml of a vault.
PathKinds == {"absent", "empty", "data", "file", "vault"}

Vault(name, path) == [name |-> name, path |-> path]

\* Config::contains_name
contains_name(vaults, name) == \E i \in 1 .. Len(vaults) : vaults[i].name = name

\* Config::contains_path
contains_path(vaults, path) == \E i \in 1 .. Len(vaults) : vaults[i].path = path

\* The position of the first vault of that name, 0 when there is none.
position(vaults, name) ==
    IF contains_name(vaults, name)
    THEN MinOf({ i \in 1 .. Len(vaults) : vaults[i].name = name })
    ELSE 0

\* Config::add: failed tells whether one of its two debug assertions fails.
ConfigAdd(vaults, name, path) ==
    [vaults |-> Append(vaults, Vault(name, path)),
     failed |-> contains_name(vaults, name) \/ contains_path(vaults, path)]

VaultResult(err, vaults, ds, failed) ==
    [err |-> err, vaults |-> vaults, dirs |-> ds, failed |-> failed]

\* Config::rename_vault giving the new name without looking for it.
ConfigRenameUnchecked(vaults, old_name, new_name) ==
    IF position(vaults, old_name) = 0
    THEN [err |-> "no_vault", vaults |-> vaults]
    ELSE [err |-> "none",
          vaults |-> [i \in 1 .. Len(vaults) |->
                        IF vaults[i].name = old_name
                        THEN Vault(new_name, vaults[i].path) ELSE vaults[i]]]

\* Config::rename_vault
ConfigRename(vaults, old_name, new_name) ==
    IF contains_name(vaults, new_name)
    THEN [err |-> "name_exists", vaults |-> vaults]
    ELSE IF position(vaults, old_name) = 0
    THEN [err |-> "no_vault", vaults |-> vaults]
    ELSE [err |-> "none",
          vaults |-> [i \in 1 .. Len(vaults) |->
                        IF vaults[i].name = old_name
                        THEN Vault(new_name, vaults[i].path) ELSE vaults[i]]]

\* Config::remove
ConfigRemove(vaults, name) ==
    LET i == position(vaults, name) IN
    IF i = 0 THEN [err |-> "no_vault", vaults |-> vaults, path |-> ""]
    ELSE [err |-> "none", vaults |-> SwapRemove(vaults, i), path |-> vaults[i].path]

\* Config::switch
ConfigSwitch(vaults, name) ==
    LET i == position(vaults, name) IN
    IF i = 0 THEN [err |-> "no_vault", vaults |-> vaults]
    ELSE [err |-> "none",
          vaults |-> [vaults EXCEPT ![i] = vaults[1], ![1] = vaults[i]]]

\* vault::new
VaultNew(vaults, ds, name, path) ==
    IF contains_name(vaults, name) THEN VaultResult("name_exists", vaults, ds, FALSE)
    ELSE IF contains_path(vaults, path)
    THEN VaultResult("path_exists", vaults, ds, FALSE)
    ELSE IF ds[path] \in {"data", "vault"}
    THEN VaultResult("not_empty", vaults, ds, FALSE)
    ELSE IF ds[path] = "file" THEN VaultResult("is_file", vaults, ds, FALSE)
    ELSE LET added == ConfigAdd(vaults, name, path) IN
         VaultResult("none", added.vaults, [ds EXCEPT ![path] = "vault"],
                     added.failed)

\* vault::connect
VaultConnect(vaults, ds, name, path) ==
    IF contains_name(vaults, name) THEN VaultResult("name_exists", vaults, ds, FALSE)
    ELSE IF contains_path(vaults, path)
    THEN VaultResult("path_exists", vaults, ds, FALSE)
    ELSE IF ds[path] \in {"empty", "data"}
    THEN VaultResult("missing_metadata", vaults, ds, FALSE)
    ELSE IF ds[path] = "file" THEN VaultResult("is_file", vaults, ds, FALSE)
    ELSE IF ds[path] = "absent" THEN VaultResult("no_path", vaults, ds, FALSE)
    ELSE LET added == ConfigAdd(vaults, name, path) IN
         VaultResult("none", added.vaults, ds, added.failed)

\* vault::disconnect
VaultDisconnect(vaults, ds, name) ==
    LET r == ConfigRemove(vaults, name) IN VaultResult(r.err, r.vaults, ds, FALSE)

\* vault::delete: the vault is taken out of the configuration and its folder
\* goes to the trash.
VaultDelete(vaults, ds, name) ==
    LET r == ConfigRemove(vaults, name) IN
    IF r.err # "none" THEN VaultResult(r.err, vaults, ds, FALSE)
    ELSE VaultResult("none", r.vaults, [ds EXCEPT ![r.path] = "absent"], FALSE)

\* What a vault command is seen to do.
VaultOutcome(op, name, r) ==
    [op |-> op, name |-> name, err |-> r.err, failed |-> r.failed]

NoVaultOutcome == [op |-> "init", name |-> "", err |-> "none", failed |-> FALSE]

ConfigIdle ==
    /\ config = <<>>
    /\ dirs = [path \in VaultPaths |-> "absent"]
    /\ vret = NoVaultOutcome

\* program: config.save() is reached when the command returned Ok.
ConfigCommit(r) ==
    /\ config' = IF r.err = "none" THEN r.vaults ELSE config
    /\ dirs' = r.dirs

\* toru vault new
CmdVaultNew ==
    \E name \in VaultNames, path \in VaultPaths :
        LET r == VaultNew(config, dirs, name, path) IN
        /\ ConfigCommit(r)
        /\ vret' = VaultOutcome("new", name, r)
        /\ UNCHANGED <<vaultVars, graphVars, indexVars, durationVars>>

\* toru vault connect
CmdVaultConnect ==
    \E name \in VaultNames, path \in VaultPaths :
        LET r == VaultConnect(config, dirs, name, path) IN
        /\ ConfigCommit(r)
        /\ vret' = VaultOutcome("connect", name, r)
        /\ UNCHANGED <<vaultVars, graphVars, indexVars, durationVars>>

\* toru vault disconnect
CmdVaultDisconnect ==
    \E name \in VaultNames :
        LET r == VaultDisconnect(config, dirs, name) IN
        /\ ConfigCommit(r)
        /\ vret' = VaultOutcome("disconnect", name, r)
        /\ UNCHANGED <<vaultVars, graphVars, indexVars, durationVars>>

\* toru vault delete
CmdVaultDelete ==
    \E name \in VaultNames :
        LET r == VaultDelete(config, dirs, name) IN
        /\ ConfigCommit(r)
        /\ vret' = VaultOutcome("delete", name, r)
        /\ UNCHANGED <<vaultVars, graphVars, indexVars, durationVars>>

\* toru vault rename
CmdVaultRename ==
    \E old_name \in VaultNames, new_name \in VaultNames :
        LET r == ConfigRename(config, old_name, new_name) IN
        /\ ConfigCommit(VaultResult(r.err, r.vaults, dirs, FALSE))
        /\ vret' = [op |-> "rename", name |-> new_name, err |-> r.err,
                    failed |-> FALSE]
        /\ UNCHANGED <<vaultVars, graphVars, indexVars, durationVars>>

\* toru switch
CmdSwitch ==
    \E name \in VaultNames :
        LET r == ConfigSwitch(config, name) IN
        /\ ConfigCommit(VaultResult(r.err, r.vaults, dirs, FALSE))
        /\ vret' = [op |-> "switch", name |-> name, err |-> r.err,
                    failed |-> FALSE]
        /\ UNCHANGED <<vaultVars, graphVars, indexVars, durationVars>>

\* ------------------------------------------------- Duration (tasks.rs)

\* The values of a u16 are 0 .. U16 - 1.
U16 == 65536

\* Hours and minutes as they are read from a task file or given to track: any
\* u16, the minutes not necessarily below 60.
HourChoices == {0, 1092, 65535}

MinuteChoices == {0, 59, 61, 65535}

Durations == [hours : HourChoices, minutes : MinuteChoices]

\* The divisors: the number of entries or of days a total is divided by.
Divisors == {1, 2, 7, 65535}

\* Duration::zero
Duration_zero == [hours |-> 0, minutes |-> 0]

\* What a Duration operation gives: a Duration, or a panic on an arithmetic
\* overflow in a build with overflow checks.
DurationResult(hours, minutes, panic) ==
    [hours |-> hours, minutes |-> minutes, panic |-> panic]

\* Duration + Duration keeping the sum of the minutes.
DurationAddNoCarry(a, b, checked) ==
    LET mins == a.minutes + b.minutes
        hrs == a.hours + b.hours
    IN  IF checked /\ (mins >= U16 \/ hrs >= U16)
        THEN DurationResult(0, 0, TRUE)
        ELSE DurationResult(hrs % U16, mins % U16, FALSE)

\* impl Add for Duration.  Each u16 sum wraps, or panics when the build checks
\* overflow.
DurationAdd(a, b, checked) ==
    LET mins == a.minutes + b.minutes
        carry == (mins % U16) \div 60
        hrs == a.hours + b.hours
        total == (hrs % U16) + carry
    IN  IF checked /\ (mins >= U16 \/ hrs >= U16 \/ total >= U16)
        THEN DurationResult(0, 0, TRUE)
        ELSE DurationResult(total % U16, (mins % U16) % 60, FALSE)

\* f64::round of n / d for n >= 0 and d > 0: halves go away from zero.
RoundDiv(n, d) == (2 * n + d) \div (2 * d)

\* impl Div<usize> for Duration
DurationDiv(a, divisor, checked) ==
    LET scaled == a.hours * 60
        total == (scaled % U16) + a.minutes
        divided == RoundDiv(total % U16, divisor)
    IN  IF checked /\ (scaled >= U16 \/ total >= U16)
        THEN DurationResult(0, 0, TRUE)
        ELSE DurationResult(divided \div 60, divided % 60, FALSE)

\* The duration of TimeEntry::new(hours, minutes, ..)
TimeEntryNew(hours, minutes, checked) ==
    LET total == hours + minutes \div 60 IN
    IF checked /\ total >= U16
    THEN DurationResult(0, 0, TRUE)
    ELSE DurationResult(total % U16, minutes % 60, FALSE)

NoDuration ==
    [op |-> "init", a |-> Duration_zero, b |-> Duration_zero, divisor |-> 1,
     result |-> DurationResult(0, 0, FALSE)]

DurationIdle == duration = NoDuration

DAdd ==
    \E a \in Durations, b \in Durations, checked \in BOOLEAN :
        /\ duration' = [op |-> "add", a |-> a, b |-> b, divisor |-> 1,
                        result |-> DurationAdd(a, b, checked)]
        /\ UNCHANGED <<vaultVars, graphVars, indexVars, configVars>>

DDiv ==
    \E a \in Durations, divisor \in Divisors, checked \in BOOLEAN :
        /\ duration' = [op |-> "div", a |-> a, b |-> Duration_zero,
                        divisor |-> divisor,
                        result |-> DurationDiv(a, divisor, checked)]
        /\ UNCHANGED <<vaultVars, graphVars, indexVars, configVars>>

DNew ==
    \E a \in Durations, checked \in BOOLEAN :
        /\ duration' = [op |-> "new", a |-> a, b |-> Duration_zero, divisor |-> 1,
                        result |-> TimeEntryNew(a.hours, a.minutes, checked)]
        /\ UNCHANGED <<vaultVars, graphVars, indexVars, configVars>>

\* ------------------------------------------- the index operations, one by one

\* The ids held by the buckets of an index.
IndexedIds(ix) == UNION { Range(ix[n]) : n \in DOMAIN ix }

\* The names of the buckets and the ids put into an index on its own.
IndexNames == NameChoices \cup { <<"b">> }

IndexIds == 0 .. MaxId

\* The tokens looked up in an index on its own.
LookupTokens == IndexNames \cup { FormatId(id) : id \in IndexIds }

NoFound ==
    [op |-> "init", token |-> <<>>, ok |-> TRUE, err |-> "none", id |-> 0,
     ids |-> <<>>]

IndexIdle == nameIndex = EmptyIndex /\ answer = NoFound

\* Index::insert of a task that is in no bucket (a task has one name: create
\* inserts a new id, edit_raw removes the old entry before it inserts).
IInsert ==
    \E name \in IndexNames, id \in IndexIds \ IndexedIds(nameIndex) :
        /\ nameIndex' = IndexInsert(nameIndex, name, id)
        /\ answer' = [NoFound EXCEPT !.op = "insert", !.token = name, !.id = id]
        /\ UNCHANGED <<vaultVars, graphVars, durationVars, configVars>>

\* Index::remove with any name and id: edit_raw and the Delete arm of program
\* call it with the name read from the task's file.
IRemove ==
    \E name \in IndexNames, id \in IndexIds :
        /\ nameIndex' = IndexRemove(nameIndex, name, id)
        /\ answer' = [NoFound EXCEPT !.op = "remove", !.token = name, !.id = id]
        /\ UNCHANGED <<vaultVars, graphVars, durationVars, configVars>>

ILookup ==
    \E token \in LookupTokens :
        LET r == IndexLookup(nameIndex, token) IN
        /\ answer' = [op |-> "lookup", token |-> token, ok |-> r.ok,
                     err |-> r.err, id |-> r.id, ids |-> r.ids]
        /\ UNCHANGED nameIndex
        /\ UNCHANGED <<vaultVars, graphVars, durationVars, configVars>>

\* ------------------------------------------------------ the command runs

\* No graph operation has returned yet.
NoRet ==
    [op |-> "init", first |-> 0, second |-> 0, res |-> "none", path |-> <<>>,
     dependents |-> {},
                   nested |-> {}]

Init == VaultInit /\ graph = EmptyGraph /\ ret = NoRet /\ IndexIdle
    /\ DurationIdle /\ ConfigIdle

Next == CmdNew \/ CmdDelete \/ CmdEdit \/ CmdList

\* The commands, state.toml staying in place between them.
Spec == Init /\ [][Next]_vars

NextReload == CmdNew \/ CmdDelete \/ CmdEdit \/ CmdList \/ StateFileLost

\* The commands, state.toml possibly missing when one starts.
SpecReload == Init /\ [][NextReload]_vars

NextStore == CmdNew \/ CmdComplete \/ CmdList \/ TaskFileEdited

\* Creating and completing tasks in a vault whose task files are also edited
\* outside toru.
SpecStore == Init /\ [][NextStore]_vars

NextLifecycle == CmdNew \/ CmdComplete \/ CmdTrack \/ CmdEditCompleted

\* Creating, completing, tracking and raw-editing tasks.
SpecLifecycle == Init /\ [][NextLifecycle]_vars

NextDamage ==
    CmdNew \/ CmdDelete \/ CmdEdit \/ CmdList \/ StateFileLost \/ StateFileDamaged

\* The commands, state.toml possibly missing or malformed when one starts.
SpecDamage == Init /\ [][NextDamage]_vars

\* ------------------------------------------- the graph operations, one by one

CycleRet(r) ==
    [op |-> "find_cycle", first |-> 0, second |-> 0,
     res |-> IF r.panic THEN "panic" ELSE IF r.some THEN "some" ELSE "none",
     path |-> r.path, dependents |-> {},
                   nested |-> {}]

GInsertNode ==
    \E node \in Nodes :
        LET r == insert_node(graph, node) IN
        /\ graph' = r.g
        /\ ret' = [op |-> "insert_node", first |-> node, second |-> 0,
                   res |-> r.res, path |-> <<>>, dependents |-> {},
                   nested |-> {}]
        /\ UNCHANGED <<vaultVars, indexVars, durationVars, configVars>>

GInsertEdge ==
    \E first \in Nodes, second \in Nodes :
        LET r == insert_edge(graph, first, second) IN
        /\ graph' = r.g
        /\ ret' = [op |-> "insert_edge", first |-> first, second |-> second,
                   res |-> r.res, path |-> <<>>, dependents |-> {},
                   nested |-> {}]
        /\ UNCHANGED <<vaultVars, indexVars, durationVars, configVars>>

GFindCycle ==
    /\ ret' = CycleRet(find_cycle(graph))
    /\ UNCHANGED graph
    /\ UNCHANGED <<vaultVars, indexVars, durationVars, configVars>>

GRemoveNode ==
    \E node \in Nodes :
        LET r == remove_node(graph, node) IN
        /\ graph' = r.g
        /\ ret' = [op |-> "remove_node", first |-> node, second |-> 0,
                   res |-> r.res, path |-> <<>>, dependents |-> r.dependents,
                   nested |-> {}]
        /\ UNCHANGED <<vaultVars, indexVars, durationVars, configVars>>

GRemoveEdge ==
    \E first \in Nodes, second \in Nodes :
        LET r == remove_edge(graph, first, second) IN
        /\ graph' = r.g
        /\ ret' = [op |-> "remove_edge", first |-> first, second |-> second,
                   res |-> r.res, path |-> <<>>, dependents |-> {},
                   nested |-> {}]
        /\ UNCHANGED <<vaultVars, indexVars, durationVars, configVars>>

\* Graphs built from the empty graph through insert_node and insert_edge.
GraphInit == VaultInit /\ graph = EmptyGraph /\ ret = NoRet /\ IndexIdle
    /\ DurationIdle /\ ConfigIdle

GraphNext == GInsertNode \/ GInsertEdge \/ GFindCycle

SpecGraph == GraphInit /\ [][GraphNext]_vars

GraphOpsNext == GInsertNode \/ GInsertEdge \/ GRemoveNode \/ GRemoveEdge

\* Graphs built from the empty graph through the four mutating operations.
SpecGraphOps == GraphInit /\ [][GraphOpsNext]_vars

IndexInit == VaultInit /\ graph = EmptyGraph /\ ret = NoRet /\ IndexIdle
    /\ DurationIdle /\ ConfigIdle

IndexNext == IInsert \/ IRemove \/ ILookup

\* Indexes built from the empty index through insert and remove, and looked up.
SpecIndex == IndexInit /\ [][IndexNext]_vars

DurationInit ==
    VaultInit /\ graph = EmptyGraph /\ ret = NoRet /\ IndexIdle
    /\ DurationIdle /\ ConfigIdle

DurationNext == DAdd \/ DDiv \/ DNew

\* The Duration operations applied to any operands.
SpecDuration == DurationInit /\ [][DurationNext]_vars

\* No vault is registered; at each path there is whatever the user has there.
ConfigInit ==
    /\ VaultInit /\ graph = EmptyGraph /\ ret = NoRet /\ IndexIdle /\ DurationIdle
    /\ config = <<>>
    /\ dirs \in [VaultPaths -> PathKinds]
    /\ vret = NoVaultOutcome

ConfigNext ==
    \/ CmdVaultNew
    \/ CmdVaultConnect
    \/ CmdVaultDisconnect
    \/ CmdVaultDelete
    \/ CmdVaultRename
    \/ CmdSwitch

\* The vault commands and switch, from an empty configuration.
SpecConfig == ConfigInit /\ [][ConfigNext]_vars

\* find_cycle applied once to any well-formed graph.
CycleInit == VaultInit /\ graph \in AllGraphs /\ ret = NoRet /\ IndexIdle
    /\ DurationIdle /\ ConfigIdle

CFindCycle ==
    /\ ret.op = "init"
    /\ ret' = CycleRet(find_cycle(graph))
    /\ UNCHANGED graph
    /\ UNCHANGED <<vaultVars, indexVars, durationVars, configVars>>

CycleNext == CFindCycle

CNestedDeps ==
    \E id \in Nodes :
        LET r == get_nested_deps(graph, id) IN
        /\ ret.op = "init"
        /\ ret' = [NoRet EXCEPT
                      !.op = "get_nested_deps",
                      !.first = id,
                      !.res = IF r.panic THEN "panic"
                              ELSE IF r.overflow THEN "overflow" ELSE "ok",
                      !.nested = r.output]
        /\ UNCHANGED graph
        /\ UNCHANGED <<vaultVars, indexVars, durationVars, configVars>>

NestedNext == CNestedDeps

\* get_nested_deps applied once to any well-formed graph and any id.
SpecNested == CycleInit /\ [][NestedNext]_vars

SpecCycle == CycleInit /\ [][CycleNext]_vars

\* ------------------------------------------------------------------- claims

\* C1: after the delete command succeeds for a task A, no remaining task file
\* lists A's id in its stored dependencies.
C1_DeleteStripsDependents ==
    (last.op = "delete" /\ last.err = "none") =>
        \A i \in DOMAIN files : last.id \notin files[i].dependencies

\* C2: over any sequence of creations and deletions and any reload of the
\* state (deserialized or bootstrapped), the id given to a newly created task
\* is strictly greater than every id issued before.
C2_IdsNeverReused ==
    [][ (last'.op = "new" /\ last'.err = "none") =>
            \A i \in issued : last'.id > i ]_vars

\* C3: after any sequence of create, delete and raw-edit commands, succeeding
\* or failing, the dependency graph persisted in state.toml is acyclic.
C3_PersistedGraphAcyclic == ~HasCycle(stateFile.deps)

\* A raw edit was rejected for closing a cycle, the persisted graph having an edge.
C3_Witness ==
    /\ last.op = "edit" /\ last.err = "cycle"
    /\ \E n \in DOMAIN stateFile.deps : stateFile.deps[n] # {}

\* C4: after any sequence of create, delete and raw-edit commands, the
\* persisted name index contains the pair (name, id) exactly when a task file
\* with that id and that name is in the task store.
C4_IndexMatchesFiles ==
    \A name \in NameChoices \cup DOMAIN stateFile.index :
        \A id \in Ids \cup DOMAIN files :
            (name \in DOMAIN stateFile.index /\ id \in Range(stateFile.index[name]))
            <=> (id \in DOMAIN files /\ files[id].ok /\ files[id].name = name)

\* A raw edit succeeded and left two tasks under one name.
C4_Witness ==
    /\ last.op = "edit" /\ last.err = "none"
    /\ \E name \in DOMAIN stateFile.index :
         Len(stateFile.index[name]) = 2 /\ last.id \in Range(stateFile.index[name])

\* The dependencies that the readable task files store, as a graph.
StoredGraph(fs) ==
    [id \in { i \in DOMAIN fs : fs[i].ok } |-> fs[id].dependencies]

\* C5: a raw edit that would make the dependency graph cyclic returns an
\* error, the task's file keeps its content and state.toml is not rewritten:
\* a run of edit that reports a cycle changes neither, and no run of edit that
\* succeeds leaves a cycle in the stored dependencies.
C5_CyclicEditRejected ==
    [][ /\ (last'.op = "edit" /\ last'.err = "cycle") =>
              (files' = files /\ stateFile' = stateFile)
        /\ (last'.op = "edit" /\ last'.err = "none") =>
              ~HasCycle(StoredGraph(files')) ]_vars

\* Task 0 depends on task 1 and an edit that made task 1 depend on task 0 was
\* rejected.
C5_Witness ==
    /\ last.op = "edit" /\ last.err = "cycle"
    /\ 0 \in DOMAIN files /\ files[0].dependencies = {1}
    /\ 1 \in DOMAIN files /\ files[1].dependencies = {}

\* C9: when state.toml is missing, load bootstraps a dependency graph with a
\* node for every task file and, for each task, the edges of its stored
\* dependencies.
C9_BootstrapBuildsGraph ==
    (last.op = "list" /\ last.err = "none" /\ last.boot) =>
        stateFile.deps = GraphCreate(files)

EdgesDescending(G) == \A n \in DOMAIN G : \A m \in G[n] : m < n

\* C6 (as stated): for any graph built from the empty graph only through
\* insert_node and insert_edge calls, find_cycle() returns None.
C6_InsertOnlyAcyclic ==
    ret.op = "find_cycle" => ret.res = "none"

\* C6 (amended): on a graph built through insert_node and insert_edge in which
\* every edge points from a higher id to a lower id, as the edges that create
\* inserts do, find_cycle() returns None.
C6_DescendingAcyclic ==
    (ret.op = "find_cycle" /\ EdgesDescending(graph)) => ret.res = "none"

\* A diamond (2 -> 1 -> 0 and 2 -> 0) was searched.
C6_Witness ==
    /\ ret.op = "find_cycle"
    /\ DOMAIN graph = {0, 1, 2}
    /\ graph[2] = {0, 1} /\ graph[1] = {0} /\ graph[0] = {}

\* C7: on every graph that contains a cycle, find_cycle() returns Some(path)
\* where each consecutive pair (path[i], path[i+1]) is an edge from path[i] to
\* path[i+1] and the first and the last element of path are equal.
C7_CyclePathIsCycle ==
    (ret.op = "find_cycle" /\ HasCycle(graph)) =>
        /\ ret.res = "some"
        /\ Len(ret.path) >= 2
        /\ IsEdgePath(graph, ret.path)
        /\ ret.path[1] = ret.path[Len(ret.path)]

\* C8: on every graph whose edge targets are all nodes, find_cycle() returns
\* None exactly when the graph has no directed cycle, and Some otherwise.
C8_FindCycleIffCycle ==
    ret.op = "find_cycle" =>
        /\ ret.res \in {"some", "none"}
        /\ (ret.res = "none") <=> ~HasCycle(graph)

\* A cycle in a component that the smallest id does not reach was found.
C8_Witness ==
    /\ ret.op = "find_cycle" /\ ret.res = "some"
    /\ DOMAIN graph = {0, 1, 2}
    /\ graph[0] = {} /\ graph[1] = {2} /\ graph[2] = {1}

\* C10: insert_edge(from, to) returns an Internal error when from or to is not
\* a node, a Generic error when both are nodes and from = to, and leaves the
\* graph unchanged in both cases; otherwise it adds the edge and returns
\* whether the edge was newly added.
C10_InsertEdgeContract ==
    [][ ret'.op = "insert_edge" =>
          LET f == ret'.first
              s == ret'.second
          IN  IF f \notin DOMAIN graph \/ s \notin DOMAIN graph
              THEN ret'.res = "internal" /\ graph' = graph
              ELSE IF f = s
              THEN ret'.res = "generic" /\ graph' = graph
              ELSE /\ DOMAIN graph' = DOMAIN graph
                   /\ \A n \in DOMAIN graph :
                        graph'[n] = IF n = f THEN graph[n] \cup {s} ELSE graph[n]
                   /\ ret'.res = IF s \in graph[f] THEN "false" ELSE "true"
      ]_vars

\* insert_edge(1, 1) was rejected on a graph that already has an edge.
C10_Witness ==
    /\ ret.op = "insert_edge" /\ ret.res = "generic"
    /\ \E n \in DOMAIN graph : graph[n] # {}

\* C11: insert_node(id) on an id that is already a node returns false and
\* leaves the graph, the node's outgoing edges included, unchanged; on an
\* absent id it returns true and adds the node with an empty edge set.
C11_InsertNodeContract ==
    [][ ret'.op = "insert_node" =>
          LET id == ret'.first IN
          IF id \in DOMAIN graph
          THEN ret'.res = "false" /\ graph' = graph
          ELSE /\ ret'.res = "true"
               /\ DOMAIN graph' = DOMAIN graph \cup {id}
               /\ graph'[id] = {}
               /\ \A n \in DOMAIN graph : graph'[n] = graph[n]
      ]_vars

\* C12: remove_node(id) on an id that is not a node returns (false, {}) and
\* leaves the graph unchanged, the edge sets of the other nodes included.
C12_RemoveAbsentNode ==
    [][ (ret'.op = "remove_node" /\ ret'.first \notin DOMAIN graph) =>
          /\ ret'.res = "false"
          /\ ret'.dependents = {}
          /\ graph' = graph
      ]_vars

\* remove_node of an absent id returned on a graph that has an edge.
C12_Witness ==
    /\ ret.op = "remove_node" /\ ret.res = "false"
    /\ ret.first \notin DOMAIN graph
    /\ \E n \in DOMAIN graph : graph[n] # {}

\* C13: remove_node(id) on a present node returns true with exactly the set of
\* nodes that had an edge to id; afterwards id is neither a node nor the target
\* of an edge, and all other edges are unchanged.
C13_RemovePresentNode ==
    [][ (ret'.op = "remove_node" /\ ret'.first \in DOMAIN graph) =>
          LET id == ret'.first IN
          /\ ret'.res = "true"
          /\ ret'.dependents = { n \in DOMAIN graph : id \in graph[n] }
          /\ DOMAIN graph' = (DOMAIN graph) \ {id}
          /\ \A n \in DOMAIN graph' : graph'[n] = graph[n] \ {id}
      ]_vars

\* remove_node(0) returned (true, {1}) and left {1: {}}.
C13_Witness ==
    /\ ret.op = "remove_node" /\ ret.first = 0 /\ ret.res = "true"
    /\ ret.dependents = {1}
    /\ DOMAIN graph = {1} /\ graph[1] = {}

\* C14: lookup of a token that parses as an unsigned integer returns that
\* integer, whatever the index holds: also when a bucket is named by the token
\* and when no indexed task has that id.
C14_NumericTokenIsId ==
    [][ (answer'.op = "lookup" /\ ParseId(answer'.token).ok) =>
          /\ answer'.ok
          /\ answer'.err = "none"
          /\ answer'.id = ParseId(answer'.token).id
          /\ \A n \in IndexIds : answer'.token = FormatId(n) => answer'.id = n
      ]_vars

\* lookup("1") returned 1 while the bucket named "1" holds another task and
\* no indexed task has id 1.
C14_Witness ==
    /\ answer.op = "lookup" /\ answer.token = <<"1">> /\ answer.ok /\ answer.id = 1
    /\ <<"1">> \in DOMAIN nameIndex
    /\ 1 \notin IndexedIds(nameIndex)

\* The ids of the tasks indexed under a name.
Named(ix, name) == IF name \in DOMAIN ix THEN Range(ix[name]) ELSE {}

\* C15: lookup of a token that does not parse as an id gives a not-found error
\* when no task has that name, the id when exactly one task has it, and an
\* ambiguous error listing every task of that name when several have it.
C15_NameLookup ==
    [][ (answer'.op = "lookup" /\ ~ParseId(answer'.token).ok) =>
          LET matches == Named(nameIndex, answer'.token) IN
          IF matches = {}
          THEN ~answer'.ok /\ answer'.err = "name_not_found"
          ELSE IF Cardinality(matches) = 1
          THEN answer'.ok /\ answer'.err = "none" /\ answer'.id \in matches
          ELSE /\ ~answer'.ok /\ answer'.err = "ambiguous"
               /\ Range(answer'.ids) = matches
               /\ Len(answer'.ids) = Cardinality(matches)
      ]_vars

\* lookup of a name that two tasks have returned the ambiguous error.
C15_Witness ==
    /\ answer.op = "lookup" /\ answer.err = "ambiguous"
    /\ Cardinality(Named(nameIndex, answer.token)) = 2
    /\ Range(answer.ids) = Named(nameIndex, answer.token)

\* Every character of the name is one of the digits 0 .. 9.
AllDigits(name) == \A i \in 1 .. Len(name) : name[i] \in Range(DigitChars)

\* C16: create with a name made of digits only returns the error about a
\* numeric name and changes nothing: state.toml (next_id, graph, index) and the
\* task files are after the run what they were before it.
C16_NumericNameRejected ==
    [][ (last'.op = "new" /\ AllDigits(last'.name)) =>
          /\ last'.err = "numeric_name"
          /\ stateFile' = stateFile
          /\ files' = files
      ]_vars

\* create with the name "1" was rejected in a vault that holds a task.
C16_Witness ==
    /\ last.op = "new" /\ last.name = <<"1">> /\ last.err = "numeric_name"
    /\ stateFile.next_id = 1
    /\ 0 \in DOMAIN files /\ files[0].ok

\* C18: when create is given a dependency that is not a node of the graph, the
\* error names that id, which was asked for and is not a node, and state.toml
\* (next_id, graph, index) is after the run what it was before it, also when
\* edges to earlier dependencies had been inserted in memory.
C18_MissingDependencyNotSaved ==
    [][ (last'.op = "new" /\ last'.err = "dependency_not_found") =>
          /\ last'.arg \in last'.deps
          /\ last'.arg \notin DOMAIN stateFile.deps
          /\ stateFile' = stateFile
      ]_vars

\* create was given task 0 and then an id that no task has: the edge to 0 was
\* inserted in memory and the run ended with the not-found error.
C18_Witness ==
    /\ last.op = "new" /\ last.err = "dependency_not_found"
    /\ last.wired = {0} /\ last.arg = MaxId
    /\ stateFile.next_id = 1
    /\ DOMAIN stateFile.deps = {0}

\* C19: a successful create with next_id = n and dependencies D returns id n,
\* sets next_id to n + 1, adds node n with outgoing edges exactly D and no
\* incoming edge, keeps the other nodes and their edges, writes the file of
\* task n and adds n to the bucket of its name.
C19_CreateEffect ==
    [][ (last'.op = "new" /\ last'.err = "none") =>
          LET n == stateFile.next_id
              D == last'.deps
          IN
          /\ last'.id = n
          /\ stateFile'.next_id = n + 1
          /\ D \subseteq DOMAIN stateFile.deps
          /\ DOMAIN stateFile'.deps = DOMAIN stateFile.deps \cup {n}
          /\ stateFile'.deps[n] = D
          /\ \A m \in DOMAIN stateFile.deps \ {n} :
                stateFile'.deps[m] = stateFile.deps[m] /\ n \notin stateFile'.deps[m]
          /\ n \in DOMAIN files' /\ files'[n] = TaskData(last'.name, D)
          /\ last'.name \in DOMAIN stateFile'.index
          /\ n \in Range(stateFile'.index[last'.name])
      ]_vars

\* In an empty vault a task was created and then a second one that depends on
\* it: ids 0 and 1, graph {0: {}, 1: {0}}.
C19_Witness ==
    /\ last.op = "new" /\ last.err = "none" /\ last.id = 1 /\ last.deps = {0}
    /\ stateFile.next_id = 2
    /\ DOMAIN stateFile.deps = {0, 1}
    /\ stateFile.deps[0] = {} /\ stateFile.deps[1] = {0}
    /\ issued = {0, 1}

\* C20: a command that finds state.toml present but malformed ends with the
\* error of the deserialization, does not bootstrap, and leaves state.toml and
\* the task files as they were; a bootstrap happens only in a run that found
\* no state.toml.
C20_MalformedStateIsFatal ==
    [][ /\ (last'.op \in Commands /\ stateFile.present /\ ~stateFile.ok) =>
              /\ last'.err = "toml"
              /\ ~last'.boot
              /\ stateFile' = stateFile
              /\ files' = files
        /\ (last'.op \in Commands /\ last'.boot) => ~stateFile.present
      ]_vars

\* A command failed on a malformed state.toml in a vault whose task files
\* could all have been loaded.
C20_Witness ==
    /\ last.op \in Commands /\ last.err = "toml"
    /\ stateFile = Malformed
    /\ DOMAIN files # {}
    /\ \A id \in DOMAIN files : files[id].ok

\* C17: Task::save validates the name again: a run of complete on a task whose
\* stored name is all digits does not succeed, and no run of complete writes
\* over the file of such a task.
C17_SaveValidatesName ==
    [][ last'.op = "complete" =>
          /\ last'.err = "none" => ~AllDigits(files[last'.id].name)
          /\ \A id \in DOMAIN files :
                (files[id].ok /\ AllDigits(files[id].name)) => files'[id] = files[id]
      ]_vars

\* C25: Index::remove(name, id) takes only id out of the bucket of name: the
\* other ids of the bucket stay, the other buckets are unchanged, the bucket is
\* deleted exactly when it has become empty, and when id is not in the bucket
\* the index is left unchanged.
C25_RemoveFrame ==
    [][ answer'.op = "remove" =>
          LET name == answer'.token
              id   == answer'.id
          IN
          IF id \in Named(nameIndex, name)
          THEN /\ Named(nameIndex', name) = Named(nameIndex, name) \ {id}
               /\ (name \in DOMAIN nameIndex') <=> (Named(nameIndex, name) # {id})
               /\ \A n \in (DOMAIN nameIndex) \ {name} :
                     n \in DOMAIN nameIndex' /\ nameIndex'[n] = nameIndex[n]
               /\ DOMAIN nameIndex' \subseteq DOMAIN nameIndex
          ELSE nameIndex' = nameIndex
      ]_vars

\* C26: in every graph built from the empty graph through insert_node,
\* insert_edge, remove_edge and remove_node, every target of an edge is a node.
C26_EdgeTargetsAreNodes == WellFormed(graph)

\* remove_node took out a node that two nodes had an edge to, and an edge
\* between those two is still in the graph.
C26_Witness ==
    /\ ret.op = "remove_node" /\ ret.res = "true"
    /\ Cardinality(ret.dependents) = 2
    /\ \E n \in DOMAIN graph : graph[n] # {}

\* C29: a run of create that ends with an error leaves the task store as it
\* was: no file of the new id is created or left behind, and a load_all that
\* succeeded before the run succeeds after it.
C29_FailedCreateLeavesNoFile ==
    [][ (last'.op = "new" /\ last'.err # "none") =>
          /\ files' = files
          /\ LoadAllOk(files) => LoadAllOk(files')
      ]_vars

\* C28: every name that create or the raw edit accepted, and that is therefore
\* in the persisted index, is a token that lookup does not parse as an id; when
\* one task has the name, lookup of the name returns the id of that task.
C28_AcceptedNamesResolve ==
    \A name \in DOMAIN stateFile.index :
        /\ ~ParseId(name).ok
        /\ Len(stateFile.index[name]) = 1 =>
              LET r == IndexLookup(stateFile.index, name) IN
              r.ok /\ r.id = stateFile.index[name][1]

\* C22: a command that fails with an error ends the process with a non-zero
\* exit status, and the status is zero only when the command succeeded.
C22_ErrorExitsNonZero ==
    last.op \in Commands => ((last.err # "none") <=> (last.exit # 0))

C23_CompletedSetOnce ==
    [][ \A id \in DOMAIN files :
          (files[id].ok /\ files[id].completed # 0 /\ id \in DOMAIN files') =>
              files'[id].completed = files[id].completed
      ]_vars

\* C24: for all hours and minutes of 16 bits, the sum of two Durations and a
\* Duration divided by a positive count have minutes < 60, whenever the
\* operation returns.
C24_MinutesBelowSixty ==
    (duration.op \in {"add", "div"} /\ ~duration.result.panic) =>
        duration.result.minutes < 60

\* Two Durations whose minutes add up to more than an hour were added, and the
\* carry went to the hours.
C24_Witness ==
    /\ duration.op = "add" /\ ~duration.result.panic
    /\ duration.a.minutes = 59 /\ duration.b.minutes = 61
    /\ duration.result.minutes = 0
    /\ duration.result.hours = duration.a.hours + duration.b.hours + 2

\* C30: after any sequence of vault new, connect, rename, disconnect, delete
\* and switch, no two registered vaults have the same name and no two the same
\* path, and no call of Config::add failed one of its debug assertions.
C30_VaultsUnique ==
    /\ \A i \in 1 .. Len(config) : \A j \in 1 .. Len(config) :
          i # j => (config[i].name # config[j].name /\ config[i].path # config[j].path)
    /\ ~vret.failed

\* With two vaults registered, a rename to the name of the other was rejected.
C30_Witness ==
    /\ vret.op = "rename" /\ vret.err = "name_exists"
    /\ Len(config) = 2

\* C27: on an acyclic graph in which id is a node and every edge target is a
\* node, get_nested_deps(id) returns, and returns exactly the nodes reached
\* from id by one or more edges; id is not among them.
C27_NestedDepsIsReachable ==
    (/\ ret.op = "get_nested_deps"
     /\ ~HasCycle(graph) /\ WellFormed(graph)
     /\ ret.first \in DOMAIN graph) =>
        /\ ret.res = "ok"
        /\ ret.nested = ReachableFrom(graph, ret.first)
        /\ ret.first \notin ret.nested

\* get_nested_deps returned a node that id reaches only through another node.
C27_Witness ==
    /\ ret.op = "get_nested_deps" /\ ret.res = "ok"
    /\ ~HasCycle(graph)
    /\ ret.first \in DOMAIN graph
    /\ ret.nested \ graph[ret.first] # {}

====
